---- MODULE Spec2Model ----
(***************************************************************************)
(* resize-images.go: resizes every JPEG of a directory to a list of sizes. *)
(* main validates the directories, parses the size list, globs the source  *)
(* directory and then runs a two-stage goroutine pipeline: readImages      *)
(* fans out one readImage per path and closes the image channel after all  *)
(* of them reported; resizeImages ranges over the image channel, fans out  *)
(* one resizeImage per (image, size) and, after receiving one completion   *)
(* per spawned worker, sends the final signal main is blocked on.          *)
(*                                                                         *)
(* Strings are sequences of one-character strings.                         *)
(***************************************************************************)
EXTENDS Integers, Sequences, FiniteSets, TLC

VARIABLES
    \* the environment the process is started in
    fromStat,      \* what fromPath is: "dir", "file", "missing", "error"
    toStat,        \* what toPath is:   "dir", "file", "missing", "error"
    sizesString,   \* the -s flag
    entries,       \* sorted names of the entries of the source directory
    chanCap,       \* runtime.GOMAXPROCS(0)
    \* main
    mainPc, exitStatus, sizes, files,
    \* file system effects
    dest,          \* names of the files os.Create made in toPath, ever
    created,       \* names of the files os.Create made in toPath, this run
    ioLog,         \* kinds of file-system calls made so far
    \* channels of main
    images, imagesClosed, allFinished,
    \* readImages
    riPc, riI, riFinished,
    \* readImage, one per index of files; loadRes[f]: the load of files[f]
    \* succeeded
    ldPc, loadRes,
    \* resizeImages
    rzPc, rzCur, rzK, count, rzI, rzFinished,
    \* resizeImage, one per <<index of files, index of sizes>>
    wkPc, wkArg, writeRes,
    \* observations
    fitArgs,       \* the sizes imaging.Fit was called with
    finalSent,     \* number of sends on allFinished
    closes,        \* number of close(images)
    received,      \* number of images the range over images has received
    run,           \* 1 in the first run of the program, 2 in a rerun
    created1       \* created at the end of the first run

env   == <<fromStat, sizesString, entries, chanCap>>
mainv == <<mainPc, exitStatus, sizes, files>>
fsv   == <<toStat, dest, created, ioLog>>
chans == <<images, imagesClosed, allFinished>>
riv   == <<riPc, riI, riFinished>>
ldv   == <<ldPc, loadRes>>
rzv   == <<rzPc, rzCur, rzK, count, rzI, rzFinished>>
wkv   == <<wkPc, wkArg, writeRes>>
obsv  == <<fitArgs, finalSent, closes, received, run, created1>>
vars  == <<env, mainv, fsv, chans, riv, ldv, rzv, wkv, obsv>>

----------------------------------------------------------------------------
(* Bounds *)

\* longest -s string of the parser specification
MaxLen == 3
\* largest runtime.GOMAXPROCS(0), the capacity of every channel
MaxCap == 2
\* width of int the parser is checked at (strconv.IntSize is 32 or 64; the
\* range test is the same arithmetic at every width)
IntBits == 4
\* most resize workers of a run of the two-run specification
MaxWorkersTwice == 2

----------------------------------------------------------------------------
(* Strings *)

Digits == <<"0", "1", "2", "3", "4", "5", "6", "7", "8", "9">>

IsDigit(c) == \E d \in 1..10 : Digits[d] = c

DigitVal(c) == (CHOOSE d \in 1..10 : Digits[d] = c) - 1

RECURSIVE Pow(_, _)
Pow(b, e) == IF e = 0 THEN 1 ELSE b * Pow(b, e - 1)

HasPrefix(s, p) == Len(s) >= Len(p) /\ SubSeq(s, 1, Len(p)) = p

HasSuffix(s, p) ==
    Len(s) >= Len(p) /\ SubSeq(s, Len(s) - Len(p) + 1, Len(s)) = p

Drop(s, n) == SubSeq(s, n + 1, Len(s))

\* strings.FieldsFunc(s, isComma): the maximal runs of non-comma characters
RECURSIVE FieldsFrom(_, _, _)
FieldsFrom(s, i, cur) ==
    IF i > Len(s)
    THEN IF cur = <<>> THEN <<>> ELSE <<cur>>
    ELSE IF s[i] = ","
         THEN IF cur = <<>>
              THEN FieldsFrom(s, i + 1, <<>>)
              ELSE <<cur>> \o FieldsFrom(s, i + 1, <<>>)
         ELSE FieldsFrom(s, i + 1, Append(cur, s[i]))

FieldsFunc(s) == FieldsFrom(s, 1, <<>>)

\* strings.Replace(s, old, "", -1) for a non-empty old: every non-overlapping
\* occurrence of old, scanning left to right, is removed
RECURSIVE RemoveAll(_, _)
RemoveAll(s, old) ==
    IF s = <<>> THEN <<>>
    ELSE IF HasPrefix(s, old)
         THEN RemoveAll(Drop(s, Len(old)), old)
         ELSE <<s[1]>> \o RemoveAll(Drop(s, 1), old)

StringsReplace(s, old) == IF old = <<>> THEN s ELSE RemoveAll(s, old)

\* index of the last c in s, 0 when there is none
LastIndex(s, c) ==
    IF \E i \in 1..Len(s) : s[i] = c
    THEN CHOOSE i \in 1..Len(s) : s[i] = c /\ \A j \in (i + 1)..Len(s) : s[j] # c
    ELSE 0

\* filepath.Base of a non-empty path that does not end in a separator
FilepathBase(path) == Drop(path, LastIndex(path, "/"))

\* filepath.Ext: the suffix beginning at the final dot of the final element
FilepathExt(path) ==
    LET b == FilepathBase(path)
        d == LastIndex(b, ".")
    IN  IF d = 0 THEN <<>> ELSE Drop(b, d - 1)

\* filepath.Join(dir, name) of a clean dir and a name without separators
FilepathJoin(dir, name) == dir \o <<"/">> \o name

\* fmt.Sprintf("%d", n)
RECURSIVE Utoa(_)
Utoa(n) == IF n < 10 THEN <<Digits[n + 1]>>
           ELSE Utoa(n \div 10) \o <<Digits[(n % 10) + 1]>>

Itoa(n) == IF n < 0 THEN <<"-">> \o Utoa(-n) ELSE Utoa(n)

----------------------------------------------------------------------------
(* strconv.ParseInt(t, 10, 0), as parseSizes calls it *)

\* strconv.ParseUint: the digits accumulate left to right; a character that
\* is no digit is a syntax error, a value above maxVal a range error
RECURSIVE ParseUintFrom(_, _, _, _)
ParseUintFrom(s, i, n, maxVal) ==
    IF i > Len(s) THEN [val |-> n, err |-> "nil"]
    ELSE IF ~IsDigit(s[i]) THEN [val |-> 0, err |-> "ErrSyntax"]
    ELSE IF n * 10 + DigitVal(s[i]) > maxVal
         THEN [val |-> maxVal, err |-> "ErrRange"]
    ELSE ParseUintFrom(s, i + 1, n * 10 + DigitVal(s[i]), maxVal)

ParseUint(s, bitSize) ==
    IF s = <<>> THEN [val |-> 0, err |-> "ErrSyntax"]
    ELSE ParseUintFrom(s, 1, 0, Pow(2, bitSize) - 1)

ParseInt(s, bitSize) ==
    IF s = <<>> THEN [val |-> 0, err |-> "ErrSyntax"]
    ELSE LET neg    == s[1] = "-"
             body   == IF s[1] \in {"+", "-"} THEN Drop(s, 1) ELSE s
             un     == ParseUint(body, bitSize)
             cutoff == Pow(2, bitSize - 1)
         IN  IF un.err = "ErrSyntax" THEN [val |-> 0, err |-> "ErrSyntax"]
             ELSE IF ~neg /\ un.val >= cutoff
                  THEN [val |-> cutoff - 1, err |-> "ErrRange"]
             ELSE IF neg /\ un.val > cutoff
                  THEN [val |-> -cutoff, err |-> "ErrRange"]
             ELSE [val |-> IF neg THEN -un.val ELSE un.val, err |-> "nil"]

----------------------------------------------------------------------------
(* parseSizes *)

\* the case i < 0 left out: a negative size is taken
IsNegativeSize_Never(i) == FALSE

\* the case written i <= 0: size 0 is refused as well
IsNegativeSize_OrZero(i) == i <= 0

\* case i < 0
IsNegativeSize(i) == i < 0

\* the loop over the fields: the first field that fails ends it
RECURSIVE ParseFields(_, _, _)
ParseFields(ts, k, acc) ==
    IF k > Len(ts) THEN [sizes |-> acc, err |-> "nil"]
    ELSE LET r == ParseInt(ts[k], IntBits)
         IN  IF r.err = "ErrSyntax" THEN [sizes |-> <<>>, err |-> "not a valid size"]
             ELSE IF r.err = "ErrRange"
                  THEN [sizes |-> <<>>, err |-> "out of the valid range"]
             ELSE IF IsNegativeSize(r.val)
                  THEN [sizes |-> <<>>, err |-> "less than zero"]
             ELSE ParseFields(ts, k + 1, Append(acc, r.val))

parseSizes(s) == ParseFields(FieldsFunc(s), 1, <<>>)

----------------------------------------------------------------------------
(* main, before the pipeline *)

NilErr == "nil"

validateDirectory(stat, mustExist) ==
    CASE stat = "missing" -> IF mustExist THEN "doesn't exist" ELSE NilErr
      [] stat = "error"   -> "stat error"
      [] stat = "file"    -> "is not a directory"
      [] stat = "dir"     -> NilErr

\* os.MkdirAll(toPath, 0755): nil on a directory, creates a missing one when
\* the file system lets it, fails on anything else
MkdirAll(stat, ok) ==
    CASE stat = "dir"     -> NilErr
      [] stat = "missing" -> IF ok THEN NilErr ELSE "mkdir error"
      [] OTHER            -> "mkdir error"

\* try(errs...): whether some argument is an error
TryFails(errs) == \E i \in 1..Len(errs) : errs[i] # NilErr

FromPath == <<"d">>
ToPath   == <<"o">>
JpgExt   == <<".", "j", "p", "g">>

\* filepath.Match("*.jpg", name) for a name without separators
MatchJpg(name) == HasSuffix(name, JpgExt)

\* filepath.Glob(filepath.Join(fromPath, "*.jpg")): the matching entries of
\* the directory in sorted order, each joined to the directory; the pattern
\* is well formed, so the error is nil
Glob(dir, names) ==
    LET m == SelectSeq(names, MatchJpg)
    IN  [matches |-> [i \in 1..Len(m) |-> FilepathJoin(dir, m[i])], err |-> NilErr]

\* the emptiness checks left out
IsEmptyList_Never(l) == FALSE

\* len(sizes) <= 0 and len(files) <= 0
IsEmptyList(l) == Len(l) <= 0

Fatal ==
    /\ mainPc' = "fatal"
    /\ exitStatus' = 1

\* the arguments of try are all evaluated, in order, before try runs; a
\* missing toPath that os.MkdirAll can create is a directory from then on
MainTry ==
    /\ mainPc = "try"
    /\ \E ok \in BOOLEAN :
          LET errs == << validateDirectory(fromStat, TRUE),
                         validateDirectory(toStat, FALSE),
                         MkdirAll(toStat, ok) >>
          IN  /\ toStat' = IF toStat = "missing" /\ ok THEN "dir" ELSE toStat
              /\ IF TryFails(errs)
                 THEN Fatal
                 ELSE mainPc' = "parse" /\ exitStatus' = exitStatus
    /\ ioLog' = ioLog \cup {"stat", "mkdir"}
    /\ UNCHANGED <<env, sizes, files, dest, created, chans, riv, ldv, rzv, wkv, obsv>>

MainParse ==
    /\ mainPc = "parse"
    /\ LET r == parseSizes(sizesString)
       IN  IF r.err # NilErr \/ IsEmptyList(r.sizes)
           THEN Fatal /\ sizes' = sizes
           ELSE mainPc' = "glob" /\ exitStatus' = exitStatus /\ sizes' = r.sizes
    /\ UNCHANGED <<env, files, fsv, chans, riv, ldv, rzv, wkv, obsv>>

MainGlob ==
    /\ mainPc = "glob"
    /\ LET r == Glob(FromPath, entries)
       IN  IF r.err # NilErr \/ IsEmptyList(r.matches)
           THEN Fatal /\ files' = files
           ELSE mainPc' = "goRead" /\ exitStatus' = exitStatus /\ files' = r.matches
    /\ ioLog' = ioLog \cup {"glob"}
    /\ UNCHANGED <<env, sizes, toStat, dest, created, chans, riv, ldv, rzv, wkv, obsv>>

\* images := make(chan *imageData, GOMAXPROCS); go readImages(files, images)
MainGoRead ==
    /\ mainPc = "goRead"
    /\ mainPc' = "goResize"
    /\ riPc' = "spawn" /\ riI' = 1 /\ riFinished' = 0
    /\ UNCHANGED <<env, exitStatus, sizes, files, fsv, chans, ldv, rzv, wkv, obsv>>

\* finished := make(chan int, GOMAXPROCS); go resizeImages(...)
MainGoResize ==
    /\ mainPc = "goResize"
    /\ mainPc' = "wait"
    /\ rzPc' = "range" /\ count' = 0 /\ rzFinished' = 0
    /\ UNCHANGED <<env, exitStatus, sizes, files, fsv, chans, riv, ldv, rzCur, rzK, rzI, wkv, obsv>>

\* <-finished, then main returns and the process exits with status 0
MainWait ==
    /\ mainPc = "wait"
    /\ allFinished > 0
    /\ allFinished' = allFinished - 1
    /\ mainPc' = "done" /\ exitStatus' = 0
    /\ UNCHANGED <<env, sizes, files, fsv, images, imagesClosed, riv, ldv, rzv, wkv, obsv>>

\* goroutines run only while main has not returned
Running == mainPc \in {"goResize", "wait"}

----------------------------------------------------------------------------
(* readImages *)

\* for _, path := range paths { go readImage(path, c, finished) }; after the
\* last path the loop that receives the completions begins with i := 0
ReadImagesSpawn ==
    /\ Running /\ riPc = "spawn" /\ riI <= Len(files)
    /\ ldPc' = ldPc @@ (riI :> "read")
    /\ IF riI = Len(files)
       THEN riPc' = "join" /\ riI' = 0
       ELSE riPc' = riPc /\ riI' = riI + 1
    /\ UNCHANGED <<env, mainv, fsv, chans, riFinished, loadRes, rzv, wkv, obsv>>

\* the loop that receives the completions written i < len(paths)-1
LoadsPending_OffByOne(i, n) == i + 1 < n

\* i < len(paths), the condition of the loop that receives the completions
LoadsPending(i, n) == i < n

\* for i := 0; i < len(paths); i++ { <-finished }
ReadImagesJoin ==
    /\ Running /\ riPc = "join" /\ LoadsPending(riI, Len(files))
    /\ riFinished > 0
    /\ riFinished' = riFinished - 1
    /\ riI' = riI + 1
    /\ UNCHANGED <<env, mainv, fsv, chans, riPc, ldv, rzv, wkv, obsv>>

\* close(c); closing a closed channel panics and ends the process
ReadImagesClose ==
    /\ Running /\ riPc = "join" /\ ~LoadsPending(riI, Len(files))
    /\ riPc' = "done"
    /\ closes' = closes + 1
    /\ IF imagesClosed
       THEN mainPc' = "panic" /\ exitStatus' = 2 /\ imagesClosed' = imagesClosed
       ELSE imagesClosed' = TRUE /\ UNCHANGED <<mainPc, exitStatus>>
    /\ UNCHANGED <<env, sizes, files, fsv, images, allFinished, riI, riFinished,
                   ldv, rzv, wkv, fitArgs, finalSent, received, run, created1>>

----------------------------------------------------------------------------
(* readImage *)

LoadOutcomes == {"ok", "openErr", "decodeErr"}

\* the completion send written at the end of readImage instead of deferred:
\* an error return skips it
AfterLoad_NoDefer(o) == IF o = "ok" THEN "send" ELSE "done"

\* the error returns left out: an image is sent whatever happened
AfterLoad_SendAnyway(o) == "send"

\* where readImage goes after os.Open and jpeg.Decode: both error paths
\* return, and the deferred completion send runs on every return
AfterLoad(o) == IF o = "ok" THEN "send" ELSE "report"

\* strings.Replace(filepath.Base(path), filepath.Ext(path), "", -1)
ImageName(path) == StringsReplace(FilepathBase(path), FilepathExt(path))

\* log, os.Open, jpeg.Decode; in a rerun the file system answers as before
ReadImage(f) ==
    /\ Running /\ f \in DOMAIN ldPc /\ ldPc[f] = "read"
    /\ \E o \in LoadOutcomes :
          /\ f \in DOMAIN loadRes => (o = "ok") = loadRes[f]
          /\ loadRes' = IF f \in DOMAIN loadRes THEN loadRes
                        ELSE loadRes @@ (f :> (o = "ok"))
          /\ ldPc' = [ldPc EXCEPT ![f] = AfterLoad(o)]
    /\ ioLog' = ioLog \cup {"open"}
    /\ UNCHANGED <<env, mainv, toStat, dest, created, chans, riv, rzv, wkv, obsv>>

\* images <- &imageData{img, name}; a send on a closed channel panics
ReadImageSend(f) ==
    /\ Running /\ f \in DOMAIN ldPc /\ ldPc[f] = "send"
    /\ IF imagesClosed
       THEN /\ mainPc' = "panic" /\ exitStatus' = 2
            /\ UNCHANGED <<images, ldPc>>
       ELSE /\ Len(images) < chanCap
            /\ images' = Append(images, [img |-> f, name |-> ImageName(files[f])])
            /\ ldPc' = [ldPc EXCEPT ![f] = "report"]
            /\ UNCHANGED <<mainPc, exitStatus>>
    /\ UNCHANGED <<env, sizes, files, fsv, imagesClosed, allFinished, riv, loadRes,
                   rzv, wkv, obsv>>

\* defer func() { finished <- 1 }()
ReadImageReport(f) ==
    /\ Running /\ f \in DOMAIN ldPc /\ ldPc[f] = "report"
    /\ riFinished < chanCap
    /\ riFinished' = riFinished + 1
    /\ ldPc' = [ldPc EXCEPT ![f] = "done"]
    /\ UNCHANGED <<env, mainv, fsv, chans, riPc, riI, loadRes, rzv, wkv, obsv>>

----------------------------------------------------------------------------
(* resizeImages *)

\* for i := range images: an image is received
ResizeImagesRecv ==
    /\ Running /\ rzPc = "range" /\ images # <<>>
    /\ rzCur' = Head(images)
    /\ images' = Tail(images)
    /\ rzK' = 1
    /\ rzPc' = "spawn"
    /\ received' = received + 1
    /\ UNCHANGED <<env, mainv, fsv, imagesClosed, allFinished, riv, ldv, count, rzI,
                   rzFinished, wkv, fitArgs, finalSent, closes, run, created1>>

\* for i := range images: the channel is closed and drained
ResizeImagesRangeEnd ==
    /\ Running /\ rzPc = "range" /\ images = <<>> /\ imagesClosed
    /\ rzPc' = "join" /\ rzI' = 0
    /\ UNCHANGED <<env, mainv, fsv, chans, riv, ldv, rzCur, rzK, count, rzFinished,
                   wkv, obsv>>

\* count++ left out
CountSpawn_Skip(c) == c

\* count += len(sizes) written inside the loop over the sizes
CountSpawn_WholeList(c) == c + Len(sizes)

\* count++
CountSpawn(c) == c + 1

\* a pool of GOMAXPROCS workers: a worker is started only when fewer than
\* cap(finished) of them are running
ResizeImagesSpawn_Pool ==
    /\ Running /\ rzPc = "spawn" /\ rzK <= Len(sizes)
    /\ Cardinality({ t \in DOMAIN wkPc : wkPc[t] # "done" }) < chanCap
    /\ count' = count + 1
    /\ LET t == <<rzCur.img, rzK>>
       IN  /\ wkPc' = wkPc @@ (t :> "create")
           /\ wkArg' = wkArg @@ (t :> [img |-> rzCur, size |-> sizes[rzK]])
    /\ IF rzK = Len(sizes)
       THEN rzPc' = "range" /\ rzK' = 0
       ELSE rzPc' = rzPc /\ rzK' = rzK + 1
    /\ UNCHANGED <<env, mainv, fsv, chans, riv, ldv, rzCur, rzI, rzFinished,
                   writeRes, obsv>>

\* for _, s := range sizes { count++; go resizeImage(i, s, toPath, finished) };
\* after the last size the range over images goes on
ResizeImagesSpawn ==
    /\ Running /\ rzPc = "spawn" /\ rzK <= Len(sizes)
    /\ count' = CountSpawn(count)
    /\ LET t == <<rzCur.img, rzK>>
       IN  /\ wkPc' = wkPc @@ (t :> "create")
           /\ wkArg' = wkArg @@ (t :> [img |-> rzCur, size |-> sizes[rzK]])
    /\ IF rzK = Len(sizes)
       THEN rzPc' = "range" /\ rzK' = 0
       ELSE rzPc' = rzPc /\ rzK' = rzK + 1
    /\ UNCHANGED <<env, mainv, fsv, chans, riv, ldv, rzCur, rzI, rzFinished,
                   writeRes, obsv>>

\* the loop that receives the completions written i < count-1
ResizesPending_OffByOne(i, c) == i + 1 < c

\* i < count, the condition of the loop that receives the completions
ResizesPending(i, c) == i < c

\* for i := 0; i < count; i++ { <-finished }
ResizeImagesJoin ==
    /\ Running /\ rzPc = "join" /\ ResizesPending(rzI, count)
    /\ rzFinished > 0
    /\ rzFinished' = rzFinished - 1
    /\ rzI' = rzI + 1
    /\ UNCHANGED <<env, mainv, fsv, chans, riv, ldv, rzPc, rzCur, rzK, count, wkv, obsv>>

\* allFinished <- 1
ResizeImagesSignal ==
    /\ Running /\ rzPc = "join" /\ ~ResizesPending(rzI, count)
    /\ allFinished < chanCap
    /\ allFinished' = allFinished + 1
    /\ finalSent' = finalSent + 1
    /\ rzPc' = "done"
    /\ UNCHANGED <<env, mainv, fsv, images, imagesClosed, riv, ldv, rzCur, rzK, count,
                   rzI, rzFinished, wkv, fitArgs, closes, received, run, created1>>

----------------------------------------------------------------------------
(* resizeImage *)

\* fmt.Sprintf("%s_%d.jpg", img.name, size)
OutName(name, size) == name \o <<"_">> \o Itoa(size) \o JpgExt

\* filepath.Join(basePath, fmt.Sprintf(...))
OutPath(t) == FilepathJoin(ToPath, OutName(wkArg[t].img.name, wkArg[t].size))

\* the completion send written at the end of resizeImage instead of deferred:
\* the error return after os.Create skips it
AfterCreate_NoDefer(failed) == IF failed THEN "done" ELSE "encode"

\* where resizeImage goes after os.Create: the error path returns, and the
\* deferred completion send runs on every return
AfterCreate(failed) == IF failed THEN "report" ELSE "encode"

\* the file opened with O_EXCL instead: an existing file is an error
CreateFails_Excl(refused, exists) == refused \/ exists

\* whether os.Create(path) fails: that is up to the file system alone (refused
\* says so); a file that exists already is truncated, not an error
CreateFails(refused, exists) == refused

\* log, os.Create(path); in a rerun the file system answers as before
ResizeImageCreate(t) ==
    /\ Running /\ t \in DOMAIN wkPc /\ wkPc[t] = "create"
    /\ \E refused \in BOOLEAN :
          LET failed == CreateFails(refused, OutPath(t) \in dest)
          IN  /\ t \in DOMAIN writeRes => refused = (writeRes[t] = "createErr")
              /\ writeRes' =
                    IF t \in DOMAIN writeRes THEN writeRes
                    ELSE writeRes @@ (t :> IF failed THEN "createErr" ELSE "created")
              /\ wkPc' = [wkPc EXCEPT ![t] = AfterCreate(failed)]
              /\ dest' = IF failed THEN dest ELSE dest \cup {OutPath(t)}
              /\ created' = IF failed THEN created ELSE created \cup {OutPath(t)}
    /\ ioLog' = ioLog \cup {"create"}
    /\ UNCHANGED <<env, mainv, toStat, chans, riv, ldv, rzv, wkArg, obsv>>

\* the size resizeImage hands to imaging.Fit as width and height
FitSize(size) == size

\* imaging.Fit(img.img, size, size, imaging.Lanczos); jpeg.Encode(file, ...)
ResizeImageEncode(t) ==
    /\ Running /\ t \in DOMAIN wkPc /\ wkPc[t] = "encode"
    /\ fitArgs' = fitArgs \cup {FitSize(wkArg[t].size)}
    /\ \E failed \in BOOLEAN :
          /\ writeRes[t] # "created" => failed = (writeRes[t] = "encodeErr")
          /\ writeRes' = [writeRes EXCEPT ![t] = IF failed THEN "encodeErr" ELSE "ok"]
    /\ wkPc' = [wkPc EXCEPT ![t] = "report"]
    /\ UNCHANGED <<env, mainv, fsv, chans, riv, ldv, rzv, wkArg, finalSent, closes,
                   received, run, created1>>

\* the worker counts itself off in the Dispatcher's count instead of sending
\* on finished
ResizeImageReport_SharedCount(t) ==
    /\ Running /\ t \in DOMAIN wkPc /\ wkPc[t] = "report"
    /\ count > 0
    /\ count' = count - 1
    /\ wkPc' = [wkPc EXCEPT ![t] = "done"]
    /\ UNCHANGED <<env, mainv, fsv, chans, riv, ldv, rzPc, rzCur, rzK, rzI, rzFinished,
                   wkArg, writeRes, obsv>>

\* defer func() { finished <- 1 }()
ResizeImageReport(t) ==
    /\ Running /\ t \in DOMAIN wkPc /\ wkPc[t] = "report"
    /\ rzFinished < chanCap
    /\ rzFinished' = rzFinished + 1
    /\ wkPc' = [wkPc EXCEPT ![t] = "done"]
    /\ UNCHANGED <<env, mainv, fsv, chans, riv, ldv, rzPc, rzCur, rzK, count, rzI,
                   wkArg, writeRes, obsv>>

----------------------------------------------------------------------------
(* The program started once *)

StatKinds == {"dir", "file", "missing", "error"}

\* -s values: none, a word, a negative, zero, a size twice
SizeInputs == { <<>>, <<"a">>, <<"-", "5">>, <<"0">>, <<"5", ",", "5">> }

AJpg    == <<"a", ".", "j", "p", "g">>
BJpg    == <<"b", ".", "j", "p", "g">>
AJpgJpg == <<"a", ".", "j", "p", "g", ".", "j", "p", "g">>
CPng    == <<"c", ".", "p", "n", "g">>

\* directory listings, sorted as the directory reader sorts them
DirInputs == { <<>>, <<CPng>>, <<AJpg, CPng>>, <<AJpg, BJpg>>, <<AJpg, AJpgJpg>> }

NoImage == [img |-> 0, name |-> <<>>]

Idle ==
    /\ mainPc = "try" /\ exitStatus = -1 /\ sizes = <<>> /\ files = <<>>
    /\ created = {} /\ ioLog = {}
    /\ images = <<>> /\ imagesClosed = FALSE /\ allFinished = 0
    /\ riPc = "none" /\ riI = 0 /\ riFinished = 0
    /\ ldPc = <<>>
    /\ rzPc = "none" /\ rzCur = NoImage /\ rzK = 0 /\ count = 0 /\ rzI = 0
    /\ rzFinished = 0
    /\ wkPc = <<>> /\ wkArg = <<>>
    /\ fitArgs = {} /\ finalSent = 0 /\ closes = 0 /\ received = 0

Init ==
    /\ fromStat \in StatKinds
    /\ toStat \in StatKinds
    /\ sizesString \in SizeInputs
    /\ entries \in DirInputs
    /\ chanCap \in 1..MaxCap
    /\ Idle
    /\ dest = {}
    /\ loadRes = <<>> /\ writeRes = <<>>
    /\ run = 1 /\ created1 = {}

Next ==
    \/ MainTry \/ MainParse \/ MainGlob \/ MainGoRead \/ MainGoResize \/ MainWait
    \/ ReadImagesSpawn \/ ReadImagesJoin \/ ReadImagesClose
    \/ \E f \in DOMAIN ldPc : ReadImage(f) \/ ReadImageSend(f) \/ ReadImageReport(f)
    \/ ResizeImagesRecv \/ ResizeImagesRangeEnd \/ ResizeImagesSpawn
    \/ ResizeImagesJoin \/ ResizeImagesSignal
    \/ \E t \in DOMAIN wkPc :
          ResizeImageCreate(t) \/ ResizeImageEncode(t) \/ ResizeImageReport(t)

Spec == Init /\ [][Next]_vars

----------------------------------------------------------------------------
(* The program started twice in a row on the same directories *)

\* the process of the first run has exited with status 0 and the program is
\* started again: same flags, same source directory, same GOMAXPROCS; the
\* destination keeps the files of the first run, and every open, decode,
\* create and encode will end as it did in the first run
Rerun ==
    /\ run = 1 /\ mainPc = "done"
    /\ run' = 2
    /\ created1' = created
    /\ mainPc' = "try" /\ exitStatus' = -1 /\ sizes' = <<>> /\ files' = <<>>
    /\ created' = {} /\ ioLog' = {}
    /\ images' = <<>> /\ imagesClosed' = FALSE /\ allFinished' = 0
    /\ riPc' = "none" /\ riI' = 0 /\ riFinished' = 0
    /\ ldPc' = <<>>
    /\ rzPc' = "none" /\ rzCur' = NoImage /\ rzK' = 0 /\ count' = 0 /\ rzI' = 0
    /\ rzFinished' = 0
    /\ wkPc' = <<>> /\ wkArg' = <<>>
    /\ fitArgs' = {} /\ finalSent' = 0 /\ closes' = 0 /\ received' = 0
    /\ UNCHANGED <<env, toStat, dest, loadRes, writeRes>>

\* -s values of the two-run specification: those of Init and three sizes
SizeInputsTwice == SizeInputs \cup { <<"0", ",", "5", ",", "5">> }

\* the inputs of Init and one more size list, as far as the run needs no
\* more than MaxWorkersTwice resize workers
InitTwice ==
    /\ fromStat \in StatKinds
    /\ toStat \in StatKinds
    /\ sizesString \in SizeInputsTwice
    /\ entries \in DirInputs
    /\ Len(SelectSeq(entries, MatchJpg)) * Len(FieldsFunc(sizesString))
          <= MaxWorkersTwice
    /\ chanCap \in 1..MaxCap
    /\ Idle
    /\ dest = {}
    /\ loadRes = <<>> /\ writeRes = <<>>
    /\ run = 1 /\ created1 = {}

NextTwice == Next \/ Rerun

SpecTwice == InitTwice /\ [][NextTwice]_vars

----------------------------------------------------------------------------
(* The size-list parser on every short string *)

ParseChars == {"0", "5", "9", ",", "-", "+", "a"}

\* the strings over ParseChars of length n
RECURSIVE StringsOfLen(_)
StringsOfLen(n) ==
    IF n = 0 THEN { <<>> }
    ELSE { Append(s, c) : s \in StringsOfLen(n - 1), c \in ParseChars }

ParseInputs == UNION { StringsOfLen(n) : n \in 0..MaxLen }

\* main has validated the directories and is about to parse the -s flag
InitParse ==
    /\ fromStat = "dir" /\ toStat = "dir"
    /\ sizesString \in ParseInputs
    /\ entries = <<AJpg>>
    /\ chanCap = 1
    /\ mainPc = "parse" /\ exitStatus = -1 /\ sizes = <<>> /\ files = <<>>
    /\ created = {} /\ ioLog = {"stat", "mkdir"}
    /\ images = <<>> /\ imagesClosed = FALSE /\ allFinished = 0
    /\ riPc = "none" /\ riI = 0 /\ riFinished = 0
    /\ ldPc = <<>>
    /\ rzPc = "none" /\ rzCur = NoImage /\ rzK = 0 /\ count = 0 /\ rzI = 0
    /\ rzFinished = 0
    /\ wkPc = <<>> /\ wkArg = <<>>
    /\ fitArgs = {} /\ finalSent = 0 /\ closes = 0 /\ received = 0
    /\ dest = {}
    /\ loadRes = <<>> /\ writeRes = <<>>
    /\ run = 1 /\ created1 = {}

NextParse == MainParse

SpecParse == InitParse /\ [][NextParse]_vars

----------------------------------------------------------------------------
(* Vocabulary of the properties *)

PipelineStarted == mainPc \in {"goRead", "goResize", "wait", "done", "panic"}

ExitZero == mainPc = "done" /\ exitStatus = 0

Loaded(f) == f \in DOMAIN loadRes /\ loadRes[f]

LoadFailed(f) == f \in DOMAIN loadRes /\ ~loadRes[f]

\* the worker of files[f] and sizes[k]
Worker(f, k) == <<f, k>>

WriteFailed(t) == t \in DOMAIN writeRes /\ writeRes[t] \in {"createErr", "encodeErr"}

WriteOK(t) == t \in DOMAIN writeRes /\ writeRes[t] = "ok"

AllReported ==
    /\ DOMAIN ldPc = 1..Len(files)
    /\ \A f \in DOMAIN ldPc : ldPc[f] = "done"
    /\ \A t \in DOMAIN wkPc : wkPc[t] = "done"

\* the name the pair (files[f], sizes[k]) is to be written under
PairPath(f, k) == FilepathJoin(ToPath, OutName(ImageName(files[f]), sizes[k]))

----------------------------------------------------------------------------
(* C1 *)

\* an upper bound on the steps the program can still take
NF == Len(entries)
NS == Len(sizesString) + 1

MainRank ==
    CASE mainPc = "try"      -> 6
      [] mainPc = "parse"    -> 5
      [] mainPc = "glob"     -> 4
      [] mainPc = "goRead"   -> 3
      [] mainPc = "goResize" -> 2
      [] mainPc = "wait"     -> 1
      [] OTHER               -> 0

RiRank ==
    CASE riPc = "none"  -> 2 * NF + 3
      [] riPc = "spawn" -> 2 * NF + 3 - riI
      [] riPc = "join"  -> NF + 1 - riI
      [] OTHER          -> 0

LdRank ==
    3 * Cardinality({f \in 1..NF : f \notin DOMAIN ldPc \/ ldPc[f] = "read"})
    + 2 * Cardinality({f \in DOMAIN ldPc : ldPc[f] = "send"})
    + Cardinality({f \in DOMAIN ldPc : ldPc[f] = "report"})

RzRank ==
    CASE rzPc = "none"  -> 3 * NF * NS + 4
      [] rzPc = "range" -> 3 * NF * NS + 3 - 2 * count
      [] rzPc = "spawn" -> 3 * NF * NS + 2 - 2 * count
      [] rzPc = "join"  -> 1 + count - rzI
      [] OTHER          -> 0

WkRank ==
    3 * Cardinality({t \in (1..NF) \X (1..NS) :
                        t \notin DOMAIN wkPc \/ wkPc[t] = "create"})
    + 2 * Cardinality({t \in DOMAIN wkPc : wkPc[t] = "encode"})
    + Cardinality({t \in DOMAIN wkPc : wkPc[t] = "report"})

Rank == MainRank + RiRank + LdRank + RzRank + WkRank

\* C1: once the pipeline has started it never deadlocks and main returns with
\* exit status 0, whatever the loads and resizes did.  Every step lowers
\* Rank, a natural number, so no run goes on forever; and a state in which no
\* step is possible is the state after main returned with status 0.  Under
\* fair scheduling the run therefore ends there.
C1_PipelineTerminates ==
    /\ [](PipelineStarted => (ExitZero \/ ENABLED Next))
    /\ [][Rank' < Rank /\ Rank' >= 0]_vars

\* both loads failed, no worker exists, and main returned with status 0
C1_Witness ==
    /\ ExitZero /\ chanCap = 1
    /\ Len(files) = 2 /\ LoadFailed(1) /\ LoadFailed(2)
    /\ wkPc = <<>>

\* the same claim as a temporal formula, under weak fairness of the program
FairSpec == Spec /\ WF_vars(Next)

PipelineLeadsToExitZero == PipelineStarted ~> ExitZero

----------------------------------------------------------------------------
(* C2 *)

\* C2: the final completion signal has not been sent unless every path has a
\* load task, and every load task and every resize worker that was spawned
\* has completed its completion send.
C2_FinalAfterAllReported == finalSent > 0 => AllReported

\* main returned after four workers, one of which failed, had reported
C2_Witness ==
    /\ mainPc = "done" /\ Cardinality(DOMAIN wkPc) = 4
    /\ \E t \in DOMAIN wkPc : WriteFailed(t)

----------------------------------------------------------------------------
(* C3 *)

AllSucceeded ==
    /\ mainPc = "done"
    /\ \A f \in 1..Len(files) : Loaded(f)
    /\ \A t \in DOMAIN wkPc : WriteOK(t)

\* C3: when every file decodes and every write succeeds, the finished run
\* has written exactly |F| x |S| files, one for every pair of a source and an
\* entry of the parsed size list.
C3_ExactlyFTimesS ==
    AllSucceeded =>
        /\ created = {PairPath(f, k) : f \in 1..Len(files), k \in 1..Len(sizes)}
        /\ Cardinality(created) = Len(files) * Len(sizes)

----------------------------------------------------------------------------
(* C4 *)

\* C4: a source that failed to open or decode never has a resize worker, so
\* a run in which no source loads writes nothing; and when the run is over,
\* every source that loaded has one finished worker per entry of the size
\* list, whose file is in the destination if its write succeeded.
C4_FailedLoadIsolated ==
    /\ \A t \in DOMAIN wkPc : Loaded(t[1])
    /\ (\A f \in DOMAIN loadRes : ~loadRes[f]) => created = {}
    /\ mainPc = "done" =>
          \A f \in 1..Len(files) :
             /\ f \in DOMAIN loadRes
             /\ Loaded(f) =>
                   \A k \in 1..Len(sizes) :
                      /\ Worker(f, k) \in DOMAIN wkPc
                      /\ wkArg[Worker(f, k)].size = sizes[k]
                      /\ wkArg[Worker(f, k)].img.name = ImageName(files[f])
                      /\ WriteOK(Worker(f, k)) => PairPath(f, k) \in created

\* a.jpg failed to load, b.jpg loaded and its output was written, and the
\* run is over
C4_Witness ==
    /\ mainPc = "done" /\ entries = <<AJpg, BJpg>>
    /\ LoadFailed(1) /\ Loaded(2)
    /\ WriteOK(Worker(2, 1))
    /\ created = {PairPath(2, 1)}

----------------------------------------------------------------------------
(* C5 *)

\* C5: the final signal is never sent twice, and when main has returned it was
\* sent once, every worker, also next to one whose create or encode failed,
\* has run to its end, and the file of every worker whose write succeeded is
\* in the destination.
C5_WriteFailureIsolated ==
    /\ finalSent <= 1
    /\ mainPc = "done" =>
          /\ finalSent = 1
          /\ \A t \in DOMAIN wkPc :
                /\ wkPc[t] = "done"
                /\ t \in DOMAIN writeRes
                /\ writeRes[t] # "created"
                /\ WriteOK(t) => OutPath(t) \in created
          /\ count = Cardinality(DOMAIN wkPc)

\* of four workers exactly one failed, at os.Create; the other three wrote
\* their files and the run is over
C5_Witness ==
    /\ mainPc = "done" /\ entries = <<AJpg, BJpg>>
    /\ Cardinality(DOMAIN wkPc) = 4
    /\ writeRes[Worker(1, 1)] = "createErr"
    /\ \A t \in DOMAIN wkPc \ {Worker(1, 1)} : WriteOK(t)
    /\ created = {PairPath(1, 2), PairPath(2, 1), PairPath(2, 2)}

----------------------------------------------------------------------------
(* C6 *)

\* the conditions the claim lists, read off the inputs
ConfigError ==
    \/ fromStat \in {"missing", "file"}
    \/ toStat = "file"
    \/ \E k \in 1..Len(FieldsFunc(sizesString)) :
          LET r == ParseInt(FieldsFunc(sizesString)[k], IntBits)
          IN  r.err # NilErr \/ r.val < 0
    \/ FieldsFunc(sizesString) = <<>>
    \/ SelectSeq(entries, MatchJpg) = <<>>

NothingSpawned ==
    /\ riPc = "none" /\ rzPc = "none"
    /\ ldPc = <<>> /\ wkPc = <<>>

\* C6: under a configuration error main is still validating or has ended
\* fatally with status 1, and no loader, dispatcher or worker was spawned.
C6_ConfigErrorsBeforeWork ==
    ConfigError =>
        /\ mainPc \in {"try", "parse", "glob", "fatal"}
        /\ mainPc = "fatal" => exitStatus = 1
        /\ ~ENABLED Next => mainPc = "fatal"
        /\ NothingSpawned

\* the last of the checks: directories and sizes are fine, no *.jpg exists
C6_Witness ==
    /\ mainPc = "fatal" /\ exitStatus = 1
    /\ fromStat = "dir" /\ toStat = "dir"
    /\ sizes # <<>> /\ entries = <<CPng>>
    /\ "glob" \in ioLog

----------------------------------------------------------------------------
(* C7 *)

\* the claim's malformed size lists: a word, a negative number
MalformedSizes == sizesString \in { <<"a">>, <<"-", "5">> }

\* C7: with a malformed size list main ends fatally with status 1 at the
\* parse: the only file-system calls made are those of the directory
\* validation block (os.Stat and os.MkdirAll), no file was globbed, opened or
\* created, and nothing was spawned.
C7_MalformedSizesAbortEarly ==
    MalformedSizes =>
        /\ mainPc \in {"try", "parse", "fatal"}
        /\ mainPc = "fatal" => exitStatus = 1
        /\ ioLog \subseteq {"stat", "mkdir"}
        /\ dest = {} /\ created = {} /\ files = <<>>
        /\ NothingSpawned

\* the directories are fine and -s -5 ended main fatally after validation
C7_Witness ==
    /\ sizesString = <<"-", "5">>
    /\ mainPc = "fatal" /\ exitStatus = 1
    /\ fromStat = "dir" /\ toStat = "dir"
    /\ ioLog = {"stat", "mkdir"}

----------------------------------------------------------------------------
(* C8 *)

\* the tokens of s between commas, as <<first, last>> positions; an empty
\* token has last = first - 1
TokenStarts(s) == {1} \cup {k + 1 : k \in {j \in 1..Len(s) : s[j] = ","}}

TokenEnd(s, i) ==
    IF \E j \in i..Len(s) : s[j] = ","
    THEN (CHOOSE j \in i..Len(s) : s[j] = "," /\ \A m \in i..(j - 1) : s[m] # ",") - 1
    ELSE Len(s)

AllTokens(s) == {<<i, TokenEnd(s, i)>> : i \in TokenStarts(s)}

NonEmptyTokens(s) == {q \in AllTokens(s) : q[2] >= q[1]}

TokenText(s, q) == SubSeq(s, q[1], q[2])

\* the k-th of a set of tokens, in input order
NthToken(qs, k) == CHOOSE q \in qs : Cardinality({p \in qs : p[1] < q[1]}) = k - 1

TokenDigits(t) == IF t # <<>> /\ t[1] \in {"+", "-"} THEN Drop(t, 1) ELSE t

\* the number a string of digits writes, digit by position
RECURSIVE DecimalValue(_, _)
DecimalValue(d, i) ==
    IF i > Len(d) THEN 0
    ELSE DigitVal(d[i]) * Pow(10, Len(d) - i) + DecimalValue(d, i + 1)

MaxInt == Pow(2, IntBits - 1) - 1

\* t writes an integer of the machine that is not negative
IsNonNegativeInteger(t) ==
    LET d == TokenDigits(t)
    IN  /\ d # <<>>
        /\ \A i \in 1..Len(d) : IsDigit(d[i])
        /\ DecimalValue(d, 1) <= MaxInt
        /\ t[1] = "-" => DecimalValue(d, 1) = 0

ParsedAs(qs) ==
    [k \in 1..Cardinality(qs) |-> DecimalValue(TokenDigits(TokenText(sizesString, NthToken(qs, k))), 1)]

SizesSettled(qs) ==
    /\ (mainPc = "fatal") <=>
          (qs = {} \/ \E q \in qs : ~IsNonNegativeInteger(TokenText(sizesString, q)))
    /\ mainPc # "fatal" => sizes = ParsedAs(qs) /\ \A k \in 1..Len(sizes) : sizes[k] >= 0

\* C8, as amended: main aborts at the size list if and only if some
\* non-empty token between commas is no non-negative integer or there is no
\* non-empty token; otherwise the sizes are the values of the non-empty
\* tokens in input order, all >= 0.  Empty tokens are skipped.
C8_NonEmptyTokensDecide == mainPc # "parse" => SizesSettled(NonEmptyTokens(sizesString))

\* a size list with an empty token was taken
C8_Witness ==
    /\ mainPc = "glob"
    /\ AllTokens(sizesString) # NonEmptyTokens(sizesString)
    /\ sizes = <<5>>

\* C8, as claimed: main aborts at the size list if and only if some token
\* between commas is no non-negative integer or the list is empty; otherwise
\* the sizes are the values of the tokens in input order, all >= 0.
C8_EveryTokenDecides == mainPc # "parse" => SizesSettled(AllTokens(sizesString))

----------------------------------------------------------------------------
(* C9 *)

\* C9: a size of 0 is never handed to imaging.Fit: the worker has decided
\* what a zero-sized bounding box means before it resizes.
C9_ZeroNeverReachesFit == 0 \notin fitArgs

----------------------------------------------------------------------------
(* C10 *)

\* C10: when the second of two runs in a row is over, it has created exactly
\* the files the first run created, and the destination holds those files
\* and no others.
C10_SecondRunSameFiles ==
    (run = 2 /\ mainPc = "done") => (created = created1 /\ dest = created1)

\* the second run is over; in both runs a.jpg's file was written, b.jpg's
\* was not
C10_Witness ==
    /\ run = 2 /\ mainPc = "done" /\ entries = <<AJpg, BJpg>>
    /\ WriteOK(Worker(1, 1)) /\ WriteFailed(Worker(2, 1))
    /\ created1 = {PairPath(1, 1)} /\ created = created1

----------------------------------------------------------------------------
(* C11 *)

\* the resize workers spawned for the image of files[f]
WorkersOf(f) == { t \in DOMAIN wkPc : t[1] = f }

\* one worker per entry of the size list
OnePerSize(f) == { Worker(f, k) : k \in 1..Len(sizes) }

\* C11: every image the Dispatcher has received gets exactly len(sizes)
\* workers, one per entry of the size list and with that entry as its size,
\* and count goes up by one with each spawn: count is always the number of
\* workers spawned, between two images and once the stream is closed and
\* drained it is (images received) x len(sizes), and inside the loop over the
\* sizes it is that of the images before plus the entries already handled.
C11_CountIsReceivedTimesSizes ==
    /\ count = Cardinality(DOMAIN wkPc)
    /\ rzPc \in {"range", "join", "done"} =>
          /\ count = received * Len(sizes)
          /\ \A f \in 1..Len(files) : WorkersOf(f) \in {{}, OnePerSize(f)}
          /\ Cardinality({ f \in 1..Len(files) : WorkersOf(f) # {} }) = received
    /\ rzPc = "spawn" =>
          /\ count = (received - 1) * Len(sizes) + (rzK - 1)
          /\ WorkersOf(rzCur.img) = { Worker(rzCur.img, k) : k \in 1..(rzK - 1) }
    /\ \A t \in DOMAIN wkPc : wkArg[t].size = sizes[t[2]]

\* the stream is closed and drained: two images were received, the size list
\* has two entries, four workers were spawned
C11_Witness ==
    /\ rzPc = "join" /\ imagesClosed /\ images = <<>>
    /\ received = 2 /\ Len(sizes) = 2
    /\ count = 4 /\ Cardinality(DOMAIN wkPc) = 4

----------------------------------------------------------------------------
(* C12 *)

\* the image of files[f] is in the stream or the Dispatcher has received it
Delivered(f) ==
    \/ \E i \in 1..Len(images) : images[i].img = f
    \/ received > 0 /\ rzCur.img = f
    \/ WorkersOf(f) # {}

\* C12: the stream is closed only when a load task was spawned for every
\* path and each of them has tried its file and reported; a load task that
\* reports after a successful load has put its image on the stream before;
\* so no load task is left to send after the close, no send or close ever
\* hits a closed stream, and a run that ends has closed the stream once.
C12_ClosedOnceAfterAllLoads ==
    /\ imagesClosed =>
          /\ DOMAIN ldPc = 1..Len(files)
          /\ \A f \in DOMAIN ldPc : ldPc[f] = "done" /\ f \in DOMAIN loadRes
    /\ \A f \in DOMAIN ldPc :
          (ldPc[f] \in {"report", "done"} /\ Loaded(f)) => Delivered(f)
    /\ \A f \in DOMAIN ldPc : ldPc[f] = "send" => ~imagesClosed
    /\ mainPc # "panic"
    /\ closes <= 1 /\ (imagesClosed <=> closes = 1)
    /\ mainPc = "done" => closes = 1

\* the stream has just been closed, the Dispatcher has not noticed yet: of
\* two load tasks one sent its image and one failed, both have reported
C12_Witness ==
    /\ imagesClosed /\ closes = 1 /\ rzPc \in {"range", "spawn"}
    /\ Len(files) = 2 /\ Loaded(1) /\ LoadFailed(2)
    /\ ldPc[1] = "done" /\ ldPc[2] = "done" /\ Delivered(1)

----------------------------------------------------------------------------
(* C13 *)

\* the completions load tasks have sent so far: those waiting in the Loader's
\* channel and those the Loader has received
LoadReports == riFinished + (IF riPc \in {"join", "done"} THEN riI ELSE 0)

\* the completions resize workers have sent so far: those waiting in the
\* Dispatcher's channel and those the Dispatcher has received
ResizeReports == rzFinished + rzI

\* C13: every task reports once on every way out. A load task whose open or
\* decode failed and a worker whose create or encode failed are on their way
\* to the completion send or past it, like the ones that succeeded; the
\* completions sent are as many as the tasks that are over, no more and no
\* fewer; and when the run ends every spawned task is over.
C13_OneReportPerTask ==
    /\ \A f \in DOMAIN ldPc :
          /\ LoadFailed(f) => ldPc[f] \in {"report", "done"}
          /\ Loaded(f) => ldPc[f] \in {"send", "report", "done"}
    /\ \A t \in DOMAIN wkPc :
          /\ (WriteFailed(t) \/ WriteOK(t)) => wkPc[t] \in {"report", "done"}
          /\ wkPc[t] \in {"report", "done"} => (WriteFailed(t) \/ WriteOK(t))
    /\ LoadReports = Cardinality({ f \in DOMAIN ldPc : ldPc[f] = "done" })
    /\ ResizeReports = Cardinality({ t \in DOMAIN wkPc : wkPc[t] = "done" })
    /\ mainPc = "done" =>
          /\ LoadReports = Len(files)
          /\ ResizeReports = Cardinality(DOMAIN wkPc)

\* the run is over: b.jpg could not be loaded, a.jpg was; of a.jpg's two
\* workers one failed to create its file and one failed to encode; the two
\* load tasks and the two workers have each sent their completion
C13_Witness ==
    /\ mainPc = "done" /\ Loaded(1) /\ LoadFailed(2)
    /\ Worker(1, 1) \in DOMAIN writeRes /\ writeRes[Worker(1, 1)] = "createErr"
    /\ Worker(1, 2) \in DOMAIN writeRes /\ writeRes[Worker(1, 2)] = "encodeErr"
    /\ LoadReports = 2 /\ ResizeReports = 2

----------------------------------------------------------------------------
(* C14 *)

\* the image of files[f] is waiting in the stream
InStream(f) == \E i \in 1..Len(images) : images[i].img = f

\* C14: a resize worker exists for a source only if the load task of that
\* source has opened and decoded it without error and has finished sending
\* it, and the Dispatcher has taken it off the stream; the image the worker
\* holds is that decoded image. A source whose load task is still reading
\* or sending, or whose load failed, has no worker.
C14_ResizeAfterDecodeAndReceive ==
    /\ \A t \in DOMAIN wkPc :
          /\ t[1] \in DOMAIN ldPc /\ ldPc[t[1]] \in {"report", "done"}
          /\ Loaded(t[1])
          /\ ~InStream(t[1]) /\ received > 0
          /\ wkArg[t].img = [img |-> t[1], name |-> ImageName(files[t[1]])]
    /\ \A f \in DOMAIN ldPc :
          (ldPc[f] \in {"read", "send"} \/ LoadFailed(f) \/ InStream(f))
             => WorkersOf(f) = {}

\* a.jpg was decoded, sent and received and has a worker; b.jpg is decoded
\* and its load task is about to send it: it has no worker yet
C14_Witness ==
    /\ Len(files) = 2 /\ WorkersOf(1) # {}
    /\ 2 \in DOMAIN ldPc /\ ldPc[2] = "send" /\ Loaded(2)
    /\ WorkersOf(2) = {}

----------------------------------------------------------------------------
(* C15 *)

\* the workers whose completion send has gone through
DoneWorkers == { t \in DOMAIN wkPc : wkPc[t] = "done" }

\* C15: as long as the Dispatcher ranges over the stream it has received no
\* worker completion, so the workers that got their send through are the
\* ones in the buffer of finished, at most cap(finished); the Dispatcher
\* receives completions only when the stream is closed and drained, never
\* more than count; and the final signal is sent once, when exactly count
\* completions were received, the buffer is empty and every worker has got
\* its send through.
C15_JoinAfterStreamEnds ==
    /\ rzPc \in {"none", "range", "spawn"} =>
          /\ rzI = 0
          /\ Cardinality(DoneWorkers) = rzFinished
          /\ rzFinished <= chanCap
    /\ rzI > 0 => (imagesClosed /\ images = <<>> /\ rzPc \in {"join", "done"})
    /\ rzI <= count
    /\ finalSent = (IF rzPc = "done" THEN 1 ELSE 0)
    /\ finalSent > 0 =>
          /\ rzI = count /\ rzFinished = 0
          /\ DoneWorkers = DOMAIN wkPc

\* the stream is still open and the Dispatcher still ranges over it; with a
\* buffer of one, one worker has got its send through and another one has
\* finished and is blocked on the send
C15_Witness ==
    /\ ~imagesClosed /\ rzPc \in {"range", "spawn"} /\ chanCap = 1
    /\ rzFinished = 1 /\ Cardinality(DoneWorkers) = 1
    /\ \E t \in DOMAIN wkPc : wkPc[t] = "report"

----------------------------------------------------------------------------
(* C16 *)

\* the worker has created or truncated its file and has not written it yet
HoldsFile(t) == t \in DOMAIN wkPc /\ wkPc[t] = "encode"

\* C16: two different resize workers never hold the same destination path
\* at the same time: different (source, size-list entry) pairs have
\* different output names.
C16_NoSharedDestination ==
    \A t, u \in DOMAIN wkPc :
        (t # u /\ HoldsFile(t) /\ HoldsFile(u)) => OutPath(t) # OutPath(u)

----------------------------------------------------------------------------
(* C17 *)

\* a step of a load task, of a resize worker
LoadTaskStep == \E f \in DOMAIN ldPc : ldPc'[f] # ldPc[f]
WorkerStep   == \E t \in DOMAIN wkPc : wkPc'[t] # wkPc[t]

\* the variables of readImages, of resizeImages, that are no channels
LoaderLocals     == <<riPc, riI>>
DispatcherLocals == <<rzPc, rzCur, rzK, count, rzI>>

\* the channels
Channels == <<images, imagesClosed, allFinished, riFinished, rzFinished>>

\* C17: what one task changes and another one sees is channels only. A step
\* of a load task or of a resize worker changes no variable of the Loader
\* or of the Dispatcher, and no other task's position or arguments; the
\* Dispatcher's count and receive index change only in steps of the
\* Dispatcher, by one at a time, and those steps change nothing of the
\* Loader and of no existing task; the Loader's loop index changes only in
\* steps of the Loader, and those change nothing of the Dispatcher and of no
\* existing task.
C17_CountersHaveOneOwner ==
    [][ /\ LoadTaskStep =>
              /\ UNCHANGED <<LoaderLocals, DispatcherLocals, wkPc, wkArg>>
              /\ Cardinality({ f \in DOMAIN ldPc : ldPc'[f] # ldPc[f] }) = 1
        /\ WorkerStep =>
              /\ UNCHANGED <<LoaderLocals, DispatcherLocals, ldPc, wkArg>>
              /\ Cardinality({ t \in DOMAIN wkPc : wkPc'[t] # wkPc[t] }) = 1
        /\ count' # count =>
              /\ rzPc = "spawn" /\ count' = count + 1
              /\ UNCHANGED <<LoaderLocals, ldPc, Channels>>
              /\ ~WorkerStep
        /\ rzI' # rzI =>
              /\ rzPc = "join" /\ rzI' = rzI + 1
              /\ UNCHANGED <<LoaderLocals, ldPc, wkPc, wkArg>>
        /\ riI' # riI =>
              /\ riPc \in {"none", "spawn", "join"}
              /\ UNCHANGED <<DispatcherLocals, wkPc, wkArg>>
              /\ ~LoadTaskStep
      ]_vars

\* both counters have been stepped while tasks were running: the Loader has
\* received one of two load completions, the Dispatcher is inside the loop
\* over two sizes and has counted the first worker, and that worker is
\* already at its completion send
C17_Witness ==
    /\ riPc = "join" /\ riI = 1 /\ Len(files) = 2
    /\ rzPc = "spawn" /\ rzK = 2 /\ count = 1
    /\ \E t \in DOMAIN wkPc : wkPc[t] = "report"

----------------------------------------------------------------------------
(* C18 *)

\* the tasks spawned that have not got their completion send through
LoadsInFlight   == { f \in DOMAIN ldPc : ldPc[f] # "done" }
WorkersInFlight == { t \in DOMAIN wkPc : wkPc[t] # "done" }

\* C18: spawning never waits for a task to finish. While the Loader is in
\* its spawn loop its next spawn can be taken at once, however many load
\* tasks are in flight, and it starts receiving completions only when a
\* load task exists for every path; while the Dispatcher is in its loop
\* over the sizes its next spawn can be taken at once, however many workers
\* are in flight and whatever the buffers hold, and it has received no
\* completion so far.
C18_SpawnNeverWaits ==
    /\ (Running /\ riPc = "spawn") =>
          /\ ENABLED ReadImagesSpawn
          /\ LoadReports = riFinished
    /\ riPc \in {"join", "done"} => DOMAIN ldPc = 1..Len(files)
    /\ (Running /\ rzPc = "spawn") =>
          /\ ENABLED ResizeImagesSpawn
          /\ ResizeReports = rzFinished

\* with channels of capacity 1: both load tasks are still in flight (at
\* their completion send) and all 2 x 2 resize workers are in flight
C18_Witness ==
    /\ chanCap = 1 /\ Len(files) = 2 /\ Len(sizes) = 2
    /\ LoadsInFlight = 1..Len(files)
    /\ WorkersInFlight = { Worker(f, k) : f \in 1..Len(files), k \in 1..Len(sizes) }

====
